---- MODULE Spec2Model ----
(***************************************************************************)
(* Model of cloudzy's SearchEngine (src/cloudzy/search_engine.py): a       *)
(* FAISS IndexIDMap over IndexFlatL2 held in memory by each SearchEngine   *)
(* instance and persisted as one file at index_path, which every instance  *)
(* shares.                                                                 *)
(*                                                                         *)
(* Numbers.  A float32 value is modelled by a small integer c.  A float64  *)
(* input is a pair <<c, r>> standing for c + r * 2^-30 with c >= 1: for    *)
(* r = 1 it is not representable in single precision and astype(float32)   *)
(* rounds it to c.  Distances are squared L2 distances; a threshold t is   *)
(* carried as the integer 2*t so that 1.5 is 3.                            *)
(***************************************************************************)
EXTENDS Integers, Sequences, FiniteSets, TLC

\* ---------------------------------------------------------------- bounds
\* entries an index holds at most: in the store-level specification Spec,
\* and in the query-level specification SpecQuery
MaxN == 2
MaxQ == 3
MaxId == 2
MaxCoord == 3
MaxDim == 2
MaxK == 3

Engines == {"e1", "e2"}
Ids == 1..MaxId
Dims == 1..MaxDim
Coords == 1..MaxCoord

\* the vectors an index or a Photo row of SpecQuery holds
QueryStored == {<<1>>, <<2>>, <<1, 1>>}
\* the embeddings the callers of SpecQuery pass to search
QueryInputs == {<< <<c, 0>> >> : c \in Coords}
               \cup {<< <<2, 1>> >>, << <<1, 0>>, <<1, 0>> >>}
\* twice the distance cutoffs callers ask for: 0, 0.5 and 1.5
Cutoffs2 == {0, 1, 3}
\* seeds passed to create_albums_kmeans
Seeds == {0, 1}
\* the embeddings the callers of the store-level specification pass: an
\* exact single-precision one, one that astype(float32) rounds, and one
\* of another length
StoreInputs == {<< <<1, 0>> >>, << <<2, 1>> >>, << <<1, 0>>, <<2, 0>> >>}

\* ------------------------------------------------------- numeric helpers
\* ndarray.astype(np.float32) on one float64 number, and on an array
astype_float32(x) == x[1]
AsF32(v) == [i \in 1..Len(v) |-> astype_float32(v[i])]
\* the float64 array whose components are exactly the float32 ones
Widen(v) == [i \in 1..Len(v) |-> <<v[i], 0>>]
IsSinglePrecision(v) == \A i \in 1..Len(v) : v[i][2] = 0

RECURSIVE SumSq(_, _, _)
SumSq(x, y, i) ==
    IF i = 0 THEN 0 ELSE (x[i] - y[i]) * (x[i] - y[i]) + SumSq(x, y, i - 1)
\* squared L2 distance of IndexFlatL2
L2sqr(x, y) == SumSq(x, y, Len(x))

\* distance reported by FAISS for a result slot that holds no vector
FltMax == MaxCoord * MaxCoord * MaxDim + 1
\* label reported by FAISS for a result slot that holds no vector
NoLabel == 0 - 1
\* twice the cutoff search() filters with (1.5)
SearchCutoff2 == 3
\* niter of faiss.Kmeans
KmeansNiter == 20
\* 1/EPS of the library's cluster split
KmeansEpsInv == 1024

\* dim of SearchEngine() and length of a generated embedding (stands for 4096)
DefaultDim == 1
\* max_retries of process_image_in_background
MaxRetries == 5

Min(a, b) == IF a < b THEN a ELSE b
Range(s) == {s[i] : i \in 1..Len(s)}

\* ---------------------------------------------------------- FAISS index
\* faiss.IndexIDMap(faiss.IndexFlatL2(dim)): empty ID-mapped flat index
IndexIDMap(d) == [d |-> d, ntotal |-> 0, xb |-> <<>>, id_map |-> <<>>]

\* an add that keys the vector by its array offset instead of photo_id
add_with_ids_offset(ix, x, id) ==
    [d |-> ix.d, ntotal |-> ix.ntotal + 1,
     xb |-> Append(ix.xb, x), id_map |-> Append(ix.id_map, ix.ntotal)]
\* an add that replaces the entry the identifier already has
add_with_ids_replace(ix, x, id) ==
    LET keep == SelectSeq([i \in 1..ix.ntotal |-> <<ix.id_map[i], ix.xb[i]>>],
                          LAMBDA p : p[1] # id)
    IN [d |-> ix.d, ntotal |-> Len(keep) + 1,
        xb |-> Append([i \in 1..Len(keep) |-> keep[i][2]], x),
        id_map |-> Append([i \in 1..Len(keep) |-> keep[i][1]], id)]
\* index.add_with_ids(embedding, [photo_id]) for an embedding of d floats
add_with_ids(ix, x, id) ==
    [d |-> ix.d, ntotal |-> ix.ntotal + 1,
     xb |-> Append(ix.xb, x), id_map |-> Append(ix.id_map, id)]

\* the (identifier, vector) entries of an index, in slot order
Entries(ix) == [i \in 1..ix.ntotal |-> <<ix.id_map[i], ix.xb[i]>>]

\* a search that reports m slots in whatever order, nearest or not
Nearest_unsorted(ix, x, m) ==
    {s \in [1..m -> 1..ix.ntotal] : \A i, j \in 1..m : i < j => s[i] # s[j]}
\* the orders in which FAISS can report the m nearest slots to x: by
\* non-decreasing distance, nothing left out being strictly nearer; the
\* order among equal distances is the library's and is left open
Nearest(ix, x, m) ==
    {s \in [1..m -> 1..ix.ntotal] :
        /\ \A i, j \in 1..m : i < j =>
              /\ s[i] # s[j]
              /\ L2sqr(x, ix.xb[s[i]]) <= L2sqr(x, ix.xb[s[j]])
        /\ \A i \in 1..m : \A j \in 1..ix.ntotal :
              (\A l \in 1..m : s[l] # j) =>
                  L2sqr(x, ix.xb[s[i]]) <= L2sqr(x, ix.xb[j])}

\* a search that reports every slot, whatever k
index_search_all(ix, x, k) ==
    {[i \in 1..ix.ntotal |-> <<ix.id_map[s[i]], L2sqr(x, ix.xb[s[i]])>>] :
        s \in Nearest(ix, x, ix.ntotal)}
\* index.search(x, k) for x of d floats and k > 0: the possible results,
\* each k slots <<label, distance>>, the slots past ntotal holding -1
index_search(ix, x, k) ==
    {[i \in 1..k |->
        IF i <= Len(s)
          THEN <<ix.id_map[s[i]], L2sqr(x, ix.xb[s[i]])>>
          ELSE <<NoLabel, FltMax>>] : s \in Nearest(ix, x, Min(k, ix.ntotal))}

\* ------------------------------------------------- faiss.Kmeans
\* Centroid coordinates are carried in units of 1/KScale so that the mean
\* of up to 4 points and a perturbation by 1/1024 stay integers.
KScale == 1024 * 12

RECURSIVE CSumSq(_, _, _)
CSumSq(x, c, j) ==
    IF j = 0 THEN 0
    ELSE (x[j] * KScale - c[j]) * (x[j] * KScale - c[j]) + CSumSq(x, c, j - 1)
\* squared distance of point x to centroid c
CDist(x, c) == CSumSq(x, c, Len(x))

\* kmeans.index.search(x, 1): the nearest centroid, the first among equals
NearestCentroid(x, C) ==
    CHOOSE j \in 1..Len(C) :
        /\ \A l \in 1..Len(C) : CDist(x, C[j]) <= CDist(x, C[l])
        /\ \A l \in 1..(j - 1) : CDist(x, C[l]) > CDist(x, C[j])

Assign(X, C) == [i \in 1..Len(X) |-> NearestCentroid(X[i], C)]

RECURSIVE CoordSum(_, _, _, _, _)
CoordSum(X, a, ci, j, i) ==
    IF i = 0 THEN 0
    ELSE (IF a[i] = ci THEN X[i][j] ELSE 0) + CoordSum(X, a, ci, j, i - 1)

\* Clustering's compute_centroids: hassign and the mean of every cluster
\* (the zero vector for a cluster that received no point)
Hassign(a, k) == [ci \in 1..k |-> Cardinality({i \in 1..Len(a) : a[i] = ci})]
compute_centroids(X, a, k, d) ==
    [ci \in 1..k |->
        [j \in 1..d |->
            IF Hassign(a, k)[ci] = 0 THEN 0
            ELSE (CoordSum(X, a, ci, j, Len(X)) * KScale) \div Hassign(a, k)[ci]]]

\* the cluster split_clusters gives half of to an empty one; the library
\* draws it with its own generator among those holding two points or more,
\* here the first of them
Donor(h) == CHOOSE cj \in 1..Len(h) :
                h[cj] >= 2 /\ \A l \in 1..(cj - 1) : h[l] < 2

\* Clustering's split_clusters from cluster ci on: an empty cluster becomes
\* a copy of the donor's centroid, the two moved apart by 1/1024
RECURSIVE split_clusters(_, _, _)
split_clusters(C, h, ci) ==
    IF ci > Len(C) THEN C
    ELSE IF h[ci] # 0 THEN split_clusters(C, h, ci + 1)
    ELSE LET cj == Donor(h)
             up == [j \in 1..Len(C[cj]) |->
                      IF j % 2 = 1 THEN C[cj][j] + C[cj][j] \div KmeansEpsInv
                                   ELSE C[cj][j] - C[cj][j] \div KmeansEpsInv]
             down == [j \in 1..Len(C[cj]) |->
                      IF j % 2 = 1 THEN C[cj][j] - C[cj][j] \div KmeansEpsInv
                                   ELSE C[cj][j] + C[cj][j] \div KmeansEpsInv]
         IN split_clusters([C EXCEPT ![ci] = up, ![cj] = down],
                           [h EXCEPT ![ci] = h[cj] \div 2, ![cj] = h[cj] - h[cj] \div 2],
                           ci + 1)

\* the k-means iterations of Clustering.train, stopping early at a fixpoint
RECURSIVE Lloyd(_, _, _, _)
Lloyd(X, C, d, it) ==
    IF it = 0 THEN C
    ELSE LET a == Assign(X, C)
             C2 == split_clusters(compute_centroids(X, a, Len(C), d),
                                  Hassign(a, Len(C)), 1)
         IN IF C2 = C THEN C ELSE Lloyd(X, C2, d, it - 1)

\* rand_perm(n, seed): the library's shuffle for a seed, here a rotation
RandPerm(n, seed) == [i \in 1..n |-> ((i - 1 + seed) % n) + 1]

\* kmeans.train(all_embeddings) for k <= n points: the final centroids
KmeansTrain(X, k, d, seed) ==
    IF Len(X) = k
      THEN [ci \in 1..k |-> [j \in 1..d |-> X[ci][j] * KScale]]
      ELSE Lloyd(X, [ci \in 1..k |-> [j \in 1..d |-> X[RandPerm(Len(X), seed)[ci]][j] * KScale]],
                 d, KmeansNiter)

\* lines 139-149: train, then assign every embedding to its nearest centroid
KmeansAssign(ix, k, seed) == Assign(ix.xb, KmeansTrain(ix.xb, k, ix.d, seed))

\* a grouping that returns the empty clusters too
KmeansAlbums_keep_empty(ix, k, seed) ==
    LET a == KmeansAssign(ix, k, seed)
        albums == [ci \in 1..k |->
                     SelectSeq([i \in 1..ix.ntotal |-> <<ix.id_map[i], a[i]>>],
                               LAMBDA p : p[2] = ci)]
        ids(al) == [i \in 1..Len(al) |-> al[i][1]]
    IN [ci \in 1..k |-> ids(albums[ci])]
\* lines 151-157: group the identifiers by cluster in slot order, drop the
\* empty clusters
KmeansAlbums(ix, k, seed) ==
    LET a == KmeansAssign(ix, k, seed)
        albums == [ci \in 1..k |->
                     SelectSeq([i \in 1..ix.ntotal |-> <<ix.id_map[i], a[i]>>],
                               LAMBDA p : p[2] = ci)]
        ids(al) == [i \in 1..Len(al) |-> al[i][1]]
    IN SelectSeq([ci \in 1..k |-> ids(albums[ci])], LAMBDA al : al # <<>>)

\* ------------------------------------------------------- persisted file
\* The file at index_path: absent, or the serialised index (header with d
\* and ntotal, the flat array of floats, the id list), possibly cut short.
NoFile == [exists |-> FALSE, hdr |-> FALSE, d |-> 0, ntotal |-> 0,
           xb |-> <<>>, ids |-> <<>>]

RECURSIVE Flatten(_)
Flatten(vs) == IF vs = <<>> THEN <<>> ELSE Head(vs) \o Flatten(Tail(vs))

\* a write_index that leaves the newest entry out
write_index_drop_last(ix) ==
    IF ix.ntotal = 0
      THEN [exists |-> TRUE, hdr |-> TRUE, d |-> ix.d, ntotal |-> 0,
            xb |-> <<>>, ids |-> <<>>]
      ELSE [exists |-> TRUE, hdr |-> TRUE, d |-> ix.d, ntotal |-> ix.ntotal - 1,
            xb |-> Flatten(SubSeq(ix.xb, 1, ix.ntotal - 1)),
            ids |-> SubSeq(ix.id_map, 1, ix.ntotal - 1)]
\* faiss.write_index(index, path)
write_index(ix) ==
    [exists |-> TRUE, hdr |-> TRUE, d |-> ix.d, ntotal |-> ix.ntotal,
     xb |-> Flatten(ix.xb), ids |-> ix.id_map]

\* faiss.read_index(path) succeeds only on a complete file
Readable(f) ==
    /\ f.exists
    /\ f.hdr
    /\ Len(f.xb) = f.ntotal * f.d
    /\ Len(f.ids) = f.ntotal

\* a read_index that cuts the flat array with a stride of one float
read_index_stride(f) ==
    [d |-> f.d, ntotal |-> f.ntotal,
     xb |-> [i \in 1..f.ntotal |-> [j \in 1..f.d |-> f.xb[(i - 1) + j]]],
     id_map |-> f.ids]
\* faiss.read_index(path) on a readable file
read_index(f) ==
    [d |-> f.d, ntotal |-> f.ntotal,
     xb |-> [i \in 1..f.ntotal |-> [j \in 1..f.d |-> f.xb[(i - 1) * f.d + j]]],
     id_map |-> f.ids]

\* the files a writer that dies part-way, or any other truncation, leaves
\* (nothing of it, or its header and floats without the id list)
Truncations(f) ==
    {[exists |-> TRUE, hdr |-> FALSE, d |-> 0, ntotal |-> 0,
      xb |-> <<>>, ids |-> <<>>]}
    \cup (IF f.ntotal > 0 THEN {[f EXCEPT !.ids = <<>>]} ELSE {})

\* ------------------------------------------------------------ the state
VARIABLES
    file,       \* the persisted file at index_path
    alive,      \* alive[e]: SearchEngine instance e has been constructed
    dim,        \* dim[e]: self.dim of instance e
    index,      \* index[e]: self.index of instance e
    last,       \* the operation that ran last and its outcome
    added,      \* identifiers whose add_embedding returned successfully
    lastAdd,    \* the last successful add_embedding while no other write followed it
    clean,      \* the file was so far written by add_embedding only
    db,         \* db[id]: the Photo row with primary key id
    pc,         \* pc[e]: how far the faiss.write_index call of instance e has got
    task        \* task[id]: the background task processing photo id

vars == <<file, alive, dim, index, last, added, lastAdd, clean, db, pc, task>>

None == [id |-> 0, v |-> <<>>, eng |-> "e1"]

\* the record of an operation: tick flips at every create_albums_kmeans
\* (it tells a run from the run before it), nbefore is the number of
\* entries the instance held in memory when the operation started
Op(op, e, out, ret, arg) ==
    [op |-> op, eng |-> e, out |-> out, ret |-> ret, arg |-> arg,
     aux |-> <<>>,
     tick |-> IF op = "create_albums_kmeans" THEN 1 - last.tick ELSE 0,
     nbefore |-> index[e].ntotal]

\* a Photo row: present or not, and its embedding (<<>> when it has none)
NoRow == [row |-> FALSE, embedding |-> <<>>]
\* no background task was scheduled for the photo.  pc is the task's
\* position, retry_count and embedding its locals, index the self.index of
\* the SearchEngine it constructs, steps the steps it completed
NoTask == [pc |-> "none", retry_count |-> 0, embedding |-> <<>>,
           index |-> IndexIDMap(DefaultDim), steps |-> {}]

Init ==
    /\ file = NoFile
    /\ alive = [e \in Engines |-> FALSE]
    /\ dim = [e \in Engines |-> 1]
    /\ index = [e \in Engines |-> IndexIDMap(1)]
    /\ last = [op |-> "none", eng |-> "e1", out |-> "ok", ret |-> <<>>,
               arg |-> <<>>, aux |-> <<>>, tick |-> 0, nbefore |-> 0]
    /\ added = {}
    /\ lastAdd = None
    /\ clean = TRUE
    /\ db = [id \in Ids |-> NoRow]
    /\ pc = [e \in Engines |-> "idle"]
    /\ task = [id \in Ids |-> NoTask]

\* ------------------------------------------------- SearchEngine methods
\* a constructor that starts an empty store whatever the path holds
SearchEngineInit_overwrite(e, d) ==
    /\ index' = [index EXCEPT ![e] = IndexIDMap(d)]
    /\ dim' = [dim EXCEPT ![e] = d]
    /\ alive' = [alive EXCEPT ![e] = TRUE]
    /\ file' = write_index(IndexIDMap(d))
    /\ last' = Op("init", e, "ok", <<>>, <<>>)
    /\ UNCHANGED <<added, lastAdd, clean, db, pc, task>>
\* SearchEngine.__init__(dim, index_path)
SearchEngineInit(e, d) ==
    /\ IF ~file.exists
         THEN /\ index' = [index EXCEPT ![e] = IndexIDMap(d)]
              /\ dim' = [dim EXCEPT ![e] = d]
              /\ alive' = [alive EXCEPT ![e] = TRUE]
              /\ last' = Op("init", e, "ok", <<>>, <<>>)
         ELSE IF Readable(file)
         THEN /\ index' = [index EXCEPT ![e] = read_index(file)]
              /\ dim' = [dim EXCEPT ![e] = d]
              /\ alive' = [alive EXCEPT ![e] = TRUE]
              /\ last' = Op("init", e, "ok", <<>>, <<>>)
         ELSE /\ UNCHANGED <<alive, dim, index>>
              /\ last' = Op("init", e, "CorruptStoreError", <<>>, <<>>)
    /\ UNCHANGED <<file, added, lastAdd, clean, db, pc, task>>

\* SearchEngine.save()
save(e) ==
    /\ alive[e]
    /\ file' = write_index(index[e])
    /\ last' = Op("save", e, "ok", <<>>, <<>>)
    /\ lastAdd' = None
    /\ clean' = FALSE
    /\ UNCHANGED <<alive, dim, index, added, db, pc, task>>

\* a load() that rebuilds the missing index with the old index's dimension
Loaded_keep_d(e) == IF file.exists THEN read_index(file) ELSE IndexIDMap(index[e].d)
\* the index self.load() leaves in self.index, given a file it can read
Loaded(e) == IF file.exists THEN read_index(file) ELSE IndexIDMap(dim[e])
\* self.load() raises: the file is there and faiss.read_index rejects it
LoadFails == file.exists /\ ~Readable(file)

\* a load() that answers a broken file with an empty index
load_fallback(e) ==
    /\ alive[e]
    /\ index' = [index EXCEPT ![e] = IF LoadFails THEN IndexIDMap(dim[e]) ELSE Loaded(e)]
    /\ last' = Op("load", e, "ok", <<>>, <<>>)
    /\ UNCHANGED <<file, alive, dim, added, lastAdd, clean, db, pc, task>>
\* a load() that writes the index it ends with back to the path
load_persist(e) ==
    /\ alive[e]
    /\ IF LoadFails
         THEN /\ last' = Op("load", e, "CorruptStoreError", <<>>, <<>>)
              /\ UNCHANGED <<index, file>>
         ELSE /\ index' = [index EXCEPT ![e] = Loaded(e)]
              /\ file' = write_index(Loaded(e))
              /\ last' = Op("load", e, "ok", <<>>, <<>>)
    /\ UNCHANGED <<alive, dim, added, lastAdd, clean, db, pc, task>>
\* SearchEngine.load()
load(e) ==
    /\ alive[e]
    /\ IF LoadFails
         THEN /\ last' = Op("load", e, "CorruptStoreError", <<>>, <<>>)
              /\ UNCHANGED index
         ELSE /\ index' = [index EXCEPT ![e] = Loaded(e)]
              /\ last' = Op("load", e, "ok", <<>>, <<>>)
    /\ UNCHANGED <<file, alive, dim, added, lastAdd, clean, db, pc, task>>

\* an add_embedding that reloads the file before it appends
add_embedding_reload(e, photo_id, embedding) ==
    /\ alive[e]
    /\ index[e].ntotal < MaxN
    /\ IF LoadFails \/ Len(embedding) # Loaded(e).d \/ Loaded(e).ntotal >= MaxN
         THEN /\ last' = Op("add_embedding", e, "AssertionError", <<>>,
                            <<embedding, photo_id>>)
              /\ UNCHANGED <<file, index, added, lastAdd, clean>>
         ELSE /\ index' = [index EXCEPT
                    ![e] = add_with_ids(Loaded(e), AsF32(embedding), photo_id)]
              /\ file' = write_index(index'[e])
              /\ last' = Op("add_embedding", e, "ok", <<>>, <<embedding, photo_id>>)
              /\ added' = added \cup {photo_id}
              /\ lastAdd' = [id |-> photo_id, v |-> embedding, eng |-> e]
              /\ UNCHANGED clean
    /\ UNCHANGED <<alive, dim, db, pc, task>>
\* SearchEngine.add_embedding(photo_id, embedding)
add_embedding(e, photo_id, embedding) ==
    /\ alive[e]
    /\ index[e].ntotal < MaxN
    /\ IF Len(embedding) # index[e].d
         THEN /\ last' = Op("add_embedding", e, "AssertionError", <<>>,
                            <<embedding, photo_id>>)
              /\ UNCHANGED <<file, index, added, lastAdd, clean>>
         ELSE /\ index' = [index EXCEPT
                    ![e] = add_with_ids(index[e], AsF32(embedding), photo_id)]
              /\ file' = write_index(index'[e])
              /\ last' = Op("add_embedding", e, "ok", <<>>, <<embedding, photo_id>>)
              /\ added' = added \cup {photo_id}
              /\ lastAdd' = [id |-> photo_id, v |-> embedding, eng |-> e]
              /\ UNCHANGED clean
    /\ UNCHANGED <<alive, dim, db, pc, task>>

\* search() without its filter
search_filter_none(r) == r
\* the filter of search(): drop the empty slots and the distant results
search_filter(r) ==
    SelectSeq(r, LAMBDA p : p[1] # NoLabel /\ 2 * p[2] <= SearchCutoff2)

\* lines 189-208 of search() on the index just loaded: the outcomes
search_body_no_guard(ix, query_embedding, top_k) ==
    IF Len(query_embedding) # ix.d \/ top_k <= 0
      THEN {[out |-> "AssertionError", ret |-> <<>>]}
      ELSE {[out |-> "ok", ret |-> search_filter(r)] :
                r \in index_search(ix, AsF32(query_embedding), top_k)}
search_body(ix, query_embedding, top_k) ==
    IF ix.ntotal = 0
      THEN {[out |-> "ok", ret |-> <<>>]}
    ELSE IF Len(query_embedding) # ix.d \/ top_k <= 0
      THEN {[out |-> "AssertionError", ret |-> <<>>]}
      ELSE {[out |-> "ok", ret |-> search_filter(r)] :
                r \in index_search(ix, AsF32(query_embedding), top_k)}

\* SearchEngine.search(query_embedding, top_k).  max_distance is the cutoff
\* the caller wants applied; search() takes no such argument and filters
\* with the constant of its list comprehension.
search(e, query_embedding, top_k, max_distance) ==
    /\ alive[e]
    /\ IF LoadFails
         THEN /\ last' = Op("search", e, "CorruptStoreError", <<>>,
                            <<query_embedding, top_k, max_distance>>)
              /\ UNCHANGED index
         ELSE /\ index' = [index EXCEPT ![e] = Loaded(e)]
              /\ \E o \in search_body(Loaded(e), query_embedding, top_k) :
                    last' = Op("search", e, o.out, o.ret,
                               <<query_embedding, top_k, max_distance>>)
    /\ UNCHANGED <<file, alive, dim, added, lastAdd, clean, db, pc, task>>

\* an inner loop that does not look at visited
RECURSIVE BuildAlbum_no_visited(_, _, _)
BuildAlbum_no_visited(r, visited, threshold2) ==
    IF r = <<>> THEN <<>>
    ELSE LET pid == Head(r)[1]
             distance == Head(r)[2]
         IN IF pid # NoLabel /\ 2 * distance <= threshold2
              THEN <<pid>> \o BuildAlbum_no_visited(Tail(r), visited, threshold2)
              ELSE BuildAlbum_no_visited(Tail(r), visited, threshold2)
\* an inner loop that keeps the neighbours whatever their distance
RECURSIVE BuildAlbum_no_threshold(_, _, _)
BuildAlbum_no_threshold(r, visited, threshold2) ==
    IF r = <<>> THEN <<>>
    ELSE LET pid == Head(r)[1]
         IN IF pid # NoLabel /\ pid \notin visited
              THEN <<pid>> \o BuildAlbum_no_threshold(Tail(r), visited \cup {pid}, threshold2)
              ELSE BuildAlbum_no_threshold(Tail(r), visited, threshold2)
\* the inner loop of create_albums over one search result: the neighbours
\* kept for the album, visited growing as they are kept
RECURSIVE BuildAlbum(_, _, _)
BuildAlbum(r, visited, threshold2) ==
    IF r = <<>> THEN <<>>
    ELSE LET pid == Head(r)[1]
             distance == Head(r)[2]
         IN IF pid # NoLabel /\ pid \notin visited /\ 2 * distance <= threshold2
              THEN <<pid>> \o BuildAlbum(Tail(r), visited \cup {pid}, threshold2)
              ELSE BuildAlbum(Tail(r), visited, threshold2)

\* an embedding_cache that gives every identifier without a row or without
\* an embedding a default vector
EmbeddingCache_default(all_ids) ==
    [id \in Range(all_ids) \cap Ids |->
        IF db[id].row /\ db[id].embedding # <<>>
          THEN Widen(db[id].embedding) ELSE Widen(<<1>>)]
\* embedding_cache of create_albums: the rows among all_ids that hold an
\* embedding, as photo.get_embedding() parses them
EmbeddingCache(all_ids) ==
    [id \in {i \in Ids : i \in Range(all_ids) /\ db[i].row /\ db[i].embedding # <<>>}
        |-> Widen(db[id].embedding)]

\* a main loop that appends the album of every seed, empty or not
RECURSIVE AlbumLoop_keep_empty(_, _, _, _, _)
AlbumLoop_keep_empty(P, order, visited, albums, seeds) ==
    IF order = <<>> \/ Len(albums) >= P.top_k
      THEN {[out |-> "ok", albums |-> albums, seeds |-> seeds]}
    ELSE LET photo_id == Head(order) IN
      IF photo_id \in visited \/ photo_id \notin DOMAIN P.cache
        THEN AlbumLoop_keep_empty(P, Tail(order), visited, albums, seeds)
      ELSE IF Len(P.cache[photo_id]) # P.ix.d \/ P.album_size <= 0
        THEN {[out |-> "AssertionError", albums |-> <<>>, seeds |-> <<>>]}
      ELSE UNION {
        LET album == BuildAlbum(r, visited, P.threshold2) IN
            AlbumLoop_keep_empty(P, Tail(order), visited \cup Range(album),
                                 Append(albums, album), Append(seeds, photo_id))
        : r \in index_search(P.ix, AsF32(P.cache[photo_id]), P.album_size)}
\* a main loop that goes through every identifier, never stopping early
RECURSIVE AlbumLoop_no_cap(_, _, _, _, _)
AlbumLoop_no_cap(P, order, visited, albums, seeds) ==
    IF order = <<>>
      THEN {[out |-> "ok", albums |-> albums, seeds |-> seeds]}
    ELSE LET photo_id == Head(order) IN
      IF photo_id \in visited \/ photo_id \notin DOMAIN P.cache
        THEN AlbumLoop_no_cap(P, Tail(order), visited, albums, seeds)
      ELSE IF Len(P.cache[photo_id]) # P.ix.d \/ P.album_size <= 0
        THEN {[out |-> "AssertionError", albums |-> <<>>, seeds |-> <<>>]}
      ELSE UNION {
        LET album == BuildAlbum(r, visited, P.threshold2) IN
          IF album # <<>>
            THEN AlbumLoop_no_cap(P, Tail(order), visited \cup Range(album),
                                  Append(albums, album), Append(seeds, photo_id))
            ELSE AlbumLoop_no_cap(P, Tail(order), visited, albums, seeds)
        : r \in index_search(P.ix, AsF32(P.cache[photo_id]), P.album_size)}
\* the main loop of create_albums from the identifiers still to visit: the
\* outcomes it can end in (the albums, and the seed that opened each)
RECURSIVE AlbumLoop(_, _, _, _, _)
AlbumLoop(P, order, visited, albums, seeds) ==
    IF order = <<>> \/ Len(albums) >= P.top_k
      THEN {[out |-> "ok", albums |-> albums, seeds |-> seeds]}
    ELSE LET photo_id == Head(order) IN
      IF photo_id \in visited \/ photo_id \notin DOMAIN P.cache
        THEN AlbumLoop(P, Tail(order), visited, albums, seeds)
      ELSE IF Len(P.cache[photo_id]) # P.ix.d \/ P.album_size <= 0
        THEN {[out |-> "AssertionError", albums |-> <<>>, seeds |-> <<>>]}
      ELSE UNION {
        LET album == BuildAlbum(r, visited, P.threshold2) IN
          IF album # <<>>
            THEN AlbumLoop(P, Tail(order), visited \cup Range(album),
                           Append(albums, album), Append(seeds, photo_id))
            ELSE AlbumLoop(P, Tail(order), visited, albums, seeds)
        : r \in index_search(P.ix, AsF32(P.cache[photo_id]), P.album_size)}

\* random.shuffle(all_ids): any order of the slots
Shuffles(n) == {p \in [1..n -> 1..n] : \A i, j \in 1..n : i # j => p[i] # p[j]}

\* SearchEngine.create_albums(top_k, distance_threshold, album_size);
\* threshold2 is twice distance_threshold
create_albums(e, top_k, threshold2, album_size) ==
    /\ alive[e]
    /\ IF LoadFails
         THEN /\ last' = Op("create_albums", e, "CorruptStoreError", <<>>,
                            <<top_k, threshold2, album_size>>)
              /\ UNCHANGED index
         ELSE /\ index' = [index EXCEPT ![e] = Loaded(e)]
              /\ IF Loaded(e).ntotal = 0
                   THEN last' = Op("create_albums", e, "ok", <<>>,
                                   <<top_k, threshold2, album_size>>)
                   ELSE \E p \in Shuffles(Loaded(e).ntotal) :
                        LET all_ids == [i \in 1..Loaded(e).ntotal |-> Loaded(e).id_map[p[i]]]
                            P == [ix |-> Loaded(e), cache |-> EmbeddingCache(all_ids),
                                  top_k |-> top_k, threshold2 |-> threshold2,
                                  album_size |-> album_size]
                        IN \E o \in AlbumLoop(P, all_ids, {}, <<>>, <<>>) :
                             last' = [Op("create_albums", e, o.out, o.albums,
                                         <<top_k, threshold2, album_size>>)
                                      EXCEPT !.aux = o.seeds]
    /\ UNCHANGED <<file, alive, dim, added, lastAdd, clean, db, pc, task>>

\* a create_albums_kmeans that does not pass the seed on: the clustering
\* starts from whatever the generator yields
create_albums_kmeans_unseeded(e, top_k, seed) ==
    /\ alive[e]
    /\ IF LoadFails
         THEN /\ last' = Op("create_albums_kmeans", e, "CorruptStoreError", <<>>,
                            <<top_k, seed>>)
              /\ UNCHANGED index
         ELSE /\ index' = [index EXCEPT ![e] = Loaded(e)]
              /\ IF Loaded(e).ntotal < top_k
                   THEN last' = Op("create_albums_kmeans", e, "ok", <<>>, <<top_k, seed>>)
                   ELSE IF Loaded(e).d # dim[e]
                   THEN last' = Op("create_albums_kmeans", e, "AssertionError", <<>>,
                                   <<top_k, seed>>)
                   ELSE \E sd \in Seeds :
                          last' = [Op("create_albums_kmeans", e, "ok",
                                      KmeansAlbums(Loaded(e), top_k, sd), <<top_k, seed>>)
                                   EXCEPT !.aux = KmeansAssign(Loaded(e), top_k, sd)]
    /\ UNCHANGED <<file, alive, dim, added, lastAdd, clean, db, pc, task>>
\* SearchEngine.create_albums_kmeans(top_k, seed), top_k >= 1
create_albums_kmeans(e, top_k, seed) ==
    /\ alive[e]
    /\ IF LoadFails
         THEN /\ last' = Op("create_albums_kmeans", e, "CorruptStoreError", <<>>,
                            <<top_k, seed>>)
              /\ UNCHANGED index
         ELSE /\ index' = [index EXCEPT ![e] = Loaded(e)]
              /\ IF Loaded(e).ntotal < top_k
                   THEN last' = Op("create_albums_kmeans", e, "ok", <<>>, <<top_k, seed>>)
                   ELSE IF Loaded(e).d # dim[e]
                   THEN last' = Op("create_albums_kmeans", e, "AssertionError", <<>>,
                                   <<top_k, seed>>)
                   ELSE last' = [Op("create_albums_kmeans", e, "ok",
                                    KmeansAlbums(Loaded(e), top_k, seed), <<top_k, seed>>)
                                 EXCEPT !.aux = KmeansAssign(Loaded(e), top_k, seed)]
    /\ UNCHANGED <<file, alive, dim, added, lastAdd, clean, db, pc, task>>

\* a get_stats that reloads the file first, as the query methods do
get_stats_reload(e) ==
    /\ alive[e]
    /\ index' = [index EXCEPT ![e] = IF LoadFails THEN index[e] ELSE Loaded(e)]
    /\ last' = Op("get_stats", e, "ok",
                  [total_embeddings |-> index'[e].ntotal, dimension |-> dim[e],
                   index_type |-> "IndexIDMap"], <<>>)
    /\ UNCHANGED <<file, alive, dim, added, lastAdd, clean, db, pc, task>>
\* SearchEngine.get_stats()
get_stats(e) ==
    /\ alive[e]
    /\ last' = Op("get_stats", e, "ok",
                  [total_embeddings |-> index[e].ntotal, dimension |-> dim[e],
                   index_type |-> "IndexIDMap"], <<>>)
    /\ UNCHANGED <<file, alive, dim, index, added, lastAdd, clean, db, pc, task>>

\* ------------------------------------------------------ the environment
\* the file is deleted from outside the engine
RemoveFile ==
    /\ file.exists
    /\ file' = NoFile
    /\ last' = Op("remove", "e1", "ok", <<>>, <<>>)
    /\ lastAdd' = None
    /\ clean' = FALSE
    /\ UNCHANGED <<alive, dim, index, added, db, pc, task>>

\* the file is cut short (a writer died while rewriting it)
TruncateFile ==
    /\ Readable(file)
    /\ file' \in Truncations(file)
    /\ last' = Op("truncate", "e1", "ok", <<>>, <<>>)
    /\ lastAdd' = None
    /\ clean' = FALSE
    /\ UNCHANGED <<alive, dim, index, added, db, pc, task>>

\* Both instances construct, load, save and add.  The methods that leave
\* the state as load() does, or unchanged (get_stats, search and the album
\* methods), are run by instance e1: the two instances are interchangeable,
\* so what such a method returns to e2 in some state it returns to e1 in the
\* state with the instances swapped, which is reachable as well.
Next ==
    \/ \E e \in Engines, d \in Dims : SearchEngineInit(e, d)
    \/ \E e \in Engines : save(e)
    \/ \E e \in Engines : load(e)
    \/ \E e \in Engines, id \in Ids, v \in StoreInputs : add_embedding(e, id, v)
    \/ get_stats("e1")
    \/ \E k \in 1..MaxN : search("e1", << <<1, 0>> >>, k, SearchCutoff2)
    \/ create_albums("e1", 1, SearchCutoff2, 1)
    \/ create_albums_kmeans("e1", 1, 0)
    \/ RemoveFile
    \/ TruncateFile

Spec == Init /\ [][Next]_vars

\* ------------------------------------------- the query-level specification
\* search, create_albums and create_albums_kmeans depend on the persisted
\* index and the Photo table only: SpecQuery starts instance e1 over every
\* index content add_embedding can have persisted and every Photo table.
QueryIndexes ==
    UNION {UNION {{[d |-> d, ntotal |-> n, xb |-> xs, id_map |-> is] :
                      xs \in [1..n -> {v \in QueryStored : Len(v) = d}],
                      is \in [1..n -> Ids]} : n \in 0..MaxQ} : d \in Dims}
QueryRows == {NoRow, [row |-> TRUE, embedding |-> <<>>]}
             \cup {[row |-> TRUE, embedding |-> v] : v \in {<<1>>, <<2>>}}

InitQuery ==
    /\ file \in {NoFile} \cup {write_index(ix) : ix \in QueryIndexes}
    /\ alive = [e \in Engines |-> e = "e1"]
    /\ \E d \in Dims : /\ dim = [e \in Engines |-> IF e = "e1" THEN d ELSE 1]
                       /\ index = [e \in Engines |-> IndexIDMap(dim[e])]
    /\ last = [op |-> "none", eng |-> "e1", out |-> "ok", ret |-> <<>>,
               arg |-> <<>>, aux |-> <<>>, tick |-> 0, nbefore |-> 0]
    /\ added = Range(file.ids)
    /\ lastAdd = None
    /\ clean = FALSE
    /\ db \in [Ids -> QueryRows]
    /\ pc = [e \in Engines |-> "idle"]
    /\ task = [id \in Ids |-> NoTask]

\* One query per behaviour: a query changes nothing a later query reads
\* (each reloads self.index first), so a second one reaches no new case.
Fresh == last.op = "none"

NextQuery ==
    \/ Fresh /\ \E q \in QueryInputs, k \in 0..MaxK, md \in Cutoffs2 :
                    search("e1", q, k, md)
    \/ Fresh /\ \E k \in 0..MaxK, t \in Cutoffs2, a \in 0..MaxK :
                    create_albums("e1", k, t, a)
    \/ Fresh /\ \E k \in 1..MaxK, sd \in Seeds :
                    create_albums_kmeans("e1", k, sd)

SpecQuery == InitQuery /\ [][NextQuery]_vars

\* ------------------------------------------- the clustering specification
\* create_albums_kmeans run again and again over the same persisted index
NextKmeans ==
    \E k \in 1..MaxK, sd \in Seeds : create_albums_kmeans("e1", k, sd)

SpecKmeans == InitQuery /\ [][NextKmeans]_vars

\* ------------------------------------- the step-by-step save specification
\* add_embedding is not one step for an observer of the path: it appends in
\* memory, then faiss.write_index opens index_path for writing (which cuts
\* the file to nothing), writes the header, the vectors and the id list in
\* this order, and closes.  pc[e] is the part instance e writes next:
\* "idle" (no write in progress), "save", "opened", "header", "vectors".
Stages == {"idle", "save", "opened", "header", "vectors"}

\* lines 168-171 of add_embedding: astype and add_with_ids, save() is next
add_embedding_append(e, photo_id, embedding) ==
    /\ alive[e]
    /\ pc[e] = "idle"
    /\ index[e].ntotal < MaxN
    /\ IF Len(embedding) # index[e].d
         THEN /\ last' = Op("add_embedding", e, "AssertionError", <<>>,
                            <<embedding, photo_id>>)
              /\ UNCHANGED <<index, pc>>
         ELSE /\ index' = [index EXCEPT
                    ![e] = add_with_ids(index[e], AsF32(embedding), photo_id)]
              /\ pc' = [pc EXCEPT ![e] = "save"]
              /\ UNCHANGED last
    /\ UNCHANGED <<file, alive, dim, added, lastAdd, clean, db, task>>

\* a writer that prepares the new file elsewhere and leaves the path alone
write_index_open_aside(e) ==
    /\ pc[e] = "save"
    /\ pc' = [pc EXCEPT ![e] = "opened"]
    /\ UNCHANGED <<file, alive, dim, index, last, added, lastAdd, clean, db, task>>
\* faiss.write_index opens index_path for writing: the file is there, empty
write_index_open(e) ==
    /\ pc[e] = "save"
    /\ file' = [exists |-> TRUE, hdr |-> FALSE, d |-> 0, ntotal |-> 0,
                xb |-> <<>>, ids |-> <<>>]
    /\ pc' = [pc EXCEPT ![e] = "opened"]
    /\ UNCHANGED <<alive, dim, index, last, added, lastAdd, clean, db, task>>

\* faiss.write_index writes the header: type, d and ntotal
write_index_header(e) ==
    /\ pc[e] = "opened"
    /\ file' = [file EXCEPT !.exists = TRUE, !.hdr = TRUE,
                            !.d = index[e].d, !.ntotal = index[e].ntotal]
    /\ pc' = [pc EXCEPT ![e] = "header"]
    /\ UNCHANGED <<alive, dim, index, last, added, lastAdd, clean, db, task>>

\* faiss.write_index writes the vectors of the flat index
write_index_vectors(e) ==
    /\ pc[e] = "header"
    /\ file' = [file EXCEPT !.exists = TRUE, !.xb = Flatten(index[e].xb)]
    /\ pc' = [pc EXCEPT ![e] = "vectors"]
    /\ UNCHANGED <<alive, dim, index, last, added, lastAdd, clean, db, task>>

\* faiss.write_index writes the id list and closes; add_embedding returns
write_index_ids(e) ==
    /\ pc[e] = "vectors"
    /\ file' = [file EXCEPT !.exists = TRUE, !.ids = index[e].id_map]
    /\ pc' = [pc EXCEPT ![e] = "idle"]
    /\ last' = Op("add_embedding", e, "ok", <<>>,
                  <<Widen(index[e].xb[index[e].ntotal]),
                    index[e].id_map[index[e].ntotal]>>)
    /\ added' = added \cup {index[e].id_map[index[e].ntotal]}
    /\ lastAdd' = [id |-> index[e].id_map[index[e].ntotal],
                   v |-> Widen(index[e].xb[index[e].ntotal]), eng |-> e]
    /\ UNCHANGED <<alive, dim, index, clean, db, task>>

\* the process of instance e dies while its write is in progress
Crash(e) ==
    /\ pc[e] \in {"opened", "header", "vectors"}
    /\ alive' = [alive EXCEPT ![e] = FALSE]
    /\ index' = [index EXCEPT ![e] = IndexIDMap(1)]
    /\ dim' = [dim EXCEPT ![e] = 1]
    /\ pc' = [pc EXCEPT ![e] = "idle"]
    /\ last' = Op("crash", e, "ok", <<>>, <<>>)
    /\ UNCHANGED <<file, added, lastAdd, clean, db, task>>

\* the embeddings the callers of the step-by-step specification pass
SaveInputs == {<< <<1, 0>> >>, << <<1, 0>>, <<2, 0>> >>}

NextSave ==
    \/ \E e \in Engines, d \in Dims : pc[e] = "idle" /\ SearchEngineInit(e, d)
    \/ \E e \in Engines : pc[e] = "idle" /\ load(e)
    \/ \E e \in Engines, id \in Ids, v \in SaveInputs :
           add_embedding_append(e, id, v)
    \/ \E e \in Engines : write_index_open(e)
    \/ \E e \in Engines : write_index_header(e)
    \/ \E e \in Engines : write_index_vectors(e)
    \/ \E e \in Engines : write_index_ids(e)
    \/ \E e \in Engines : Crash(e)

SpecSave == Init /\ [][NextSave]_vars

\* ------------------------------------------- the upload specification
\* routes/upload.py: upload_photo commits the Photo row and schedules
\* process_image_in_background, whose steps interleave with those of the
\* tasks of other uploads.  Every exception inside the task is caught by its
\* outer handler, which prints it: the task is then at "failed" for good.
Raise(id) == [task EXCEPT ![id].pc = "failed"]
Goto(id, to, step) ==
    [task EXCEPT ![id].pc = to, ![id].steps = task[id].steps \cup {step}]

\* the embeddings generate_embedding returns (float32, length 4096)
Generated == {<<c>> : c \in 1..2}

\* upload_photo, lines 177-193: the row gets the next primary key and is
\* committed with no embedding, then the task is scheduled
upload_photo(id) ==
    /\ id = 1 + Cardinality({i \in Ids : db[i].row})
    /\ task[id].pc = "none"
    /\ db' = [db EXCEPT ![id] = [row |-> TRUE, embedding |-> <<>>]]
    /\ task' = [task EXCEPT ![id].pc = "wait"]
    /\ UNCHANGED <<file, alive, dim, index, last, added, lastAdd, clean, pc>>

\* lines 86-89: the image is not there yet, wait and count
wait_retry(id) ==
    /\ task[id].pc = "wait"
    /\ task[id].retry_count < MaxRetries
    /\ task' = [task EXCEPT ![id].retry_count = task[id].retry_count + 1]
    /\ UNCHANGED <<file, alive, dim, index, last, added, lastAdd, clean, db, pc>>

\* lines 86 and 91: the image is there, the loop and the check let it pass
wait_found(id) ==
    /\ task[id].pc = "wait"
    /\ task' = Goto(id, "analyze", "file")
    /\ UNCHANGED <<file, alive, dim, index, last, added, lastAdd, clean, db, pc>>

\* lines 86 and 91-92: max_retries waits are used up and the image is not
\* there: FileNotFoundError
wait_give_up(id) ==
    /\ task[id].pc = "wait"
    /\ task[id].retry_count = MaxRetries
    /\ task' = Raise(id)
    /\ UNCHANGED <<file, alive, dim, index, last, added, lastAdd, clean, db, pc>>

\* lines 95-103: the primary analyzer returns, or raises and the fallback is next
analyze_image_metadata(id) ==
    /\ task[id].pc = "analyze"
    /\ \/ task' = Goto(id, "embed", "analysis")
       \/ task' = [task EXCEPT ![id].pc = "fallback"]
    /\ UNCHANGED <<file, alive, dim, index, last, added, lastAdd, clean, db, pc>>

\* lines 105-115: the fallback describer returns, or raises as well
describe_image(id) ==
    /\ task[id].pc = "fallback"
    /\ \/ task' = Goto(id, "embed", "analysis")
       \/ task' = Raise(id)
    /\ UNCHANGED <<file, alive, dim, index, last, added, lastAdd, clean, db, pc>>

\* lines 117-122: generate_embedding returns an embedding, or raises
generate_embedding(id) ==
    /\ task[id].pc = "embed"
    /\ \/ \E v \in Generated :
             task' = [Goto(id, "db", "embedding") EXCEPT ![id].embedding = v]
       \/ task' = Raise(id)
    /\ UNCHANGED <<file, alive, dim, index, last, added, lastAdd, clean, db, pc>>

\* a database step that never commits the embedding
update_photo_no_commit(id) ==
    /\ task[id].pc = "db"
    /\ task' = Goto(id, "construct", "db")
    /\ UNCHANGED <<file, alive, dim, index, last, added, lastAdd, clean, db, pc>>
\* lines 125-138: the row, if found, gets the embedding and is committed;
\* if it is not found the task prints that and goes on; commit may raise
update_photo(id) ==
    /\ task[id].pc = "db"
    /\ \/ /\ task' = Goto(id, "construct", "db")
          /\ db' = IF db[id].row
                     THEN [db EXCEPT ![id].embedding = task[id].embedding]
                     ELSE db
       \/ /\ task' = Raise(id)
          /\ UNCHANGED db
    /\ UNCHANGED <<file, alive, dim, index, last, added, lastAdd, clean, pc>>

\* line 141: SearchEngine() reads the file if it is there, and raises if
\* it cannot be read
task_SearchEngine(id) ==
    /\ task[id].pc = "construct"
    /\ task' = IF ~file.exists
                 THEN [task EXCEPT ![id].pc = "add",
                                   ![id].index = IndexIDMap(DefaultDim)]
               ELSE IF Readable(file)
                 THEN [task EXCEPT ![id].pc = "add", ![id].index = read_index(file)]
               ELSE Raise(id)
    /\ UNCHANGED <<file, alive, dim, index, last, added, lastAdd, clean, db, pc>>

\* line 142: search_engine.add_embedding(photo_id, embedding)
task_add_embedding(id) ==
    /\ task[id].pc = "add"
    /\ IF Len(task[id].embedding) # task[id].index.d
         THEN /\ task' = Raise(id)
              /\ UNCHANGED <<file, added>>
         ELSE /\ task' = [Goto(id, "done", "index") EXCEPT
                    ![id].index = add_with_ids(task[id].index,
                                     AsF32(Widen(task[id].embedding)), id)]
              /\ file' = write_index(task'[id].index)
              /\ added' = added \cup {id}
    /\ UNCHANGED <<alive, dim, index, last, lastAdd, clean, db, pc>>

NextUpload ==
    \/ \E id \in Ids : upload_photo(id)
    \/ \E id \in Ids : wait_retry(id)
    \/ \E id \in Ids : wait_found(id)
    \/ \E id \in Ids : wait_give_up(id)
    \/ \E id \in Ids : analyze_image_metadata(id)
    \/ \E id \in Ids : describe_image(id)
    \/ \E id \in Ids : generate_embedding(id)
    \/ \E id \in Ids : update_photo(id)
    \/ \E id \in Ids : task_SearchEngine(id)
    \/ \E id \in Ids : task_add_embedding(id)

SpecUpload == Init /\ [][NextUpload]_vars

\* ------------------------------------------------------------- the claims
\* the step is a whole operation, recorded in last', and not one part of a
\* write in progress
Stepped == pc' = pc
ReadOps == {"search", "create_albums", "create_albums_kmeans"}
\* identifiers of the persisted store
PersistedIds == IF Readable(file) THEN Range(file.ids) ELSE {}
HasEntry(ix, id, x) == \E i \in 1..ix.ntotal : ix.id_map[i] = id /\ ix.xb[i] = x

\* C1: once add_embedding(id, v) has returned and nothing else has written
\* the file, a load() by any instance leaves an index holding id with the
\* single-precision value of v (v itself when v is single precision).
C1_AddThenLoad ==
    (last.op = "load" /\ lastAdd # None) =>
        /\ last.out = "ok"
        /\ HasEntry(index[last.eng], lastAdd.id, AsF32(lastAdd.v))
        /\ IsSinglePrecision(lastAdd.v) =>
              \E i \in 1..index[last.eng].ntotal :
                  /\ index[last.eng].id_map[i] = lastAdd.id
                  /\ Widen(index[last.eng].xb[i]) = lastAdd.v
C1_Witness ==
    /\ last.op = "load"
    /\ lastAdd # None
    /\ last.eng # lastAdd.eng
    /\ last.nbefore = 0
    /\ IsSinglePrecision(lastAdd.v)
    /\ index[last.eng].ntotal = MaxN

\* C2: right after save() the file is one load() reads back into an index
\* with the same dimension, count and sequence of (identifier, vector)
\* entries as the index in memory, for empty indexes too.
C2_RoundTrip ==
    last.op = "save" =>
        /\ ~LoadFails
        /\ Loaded(last.eng).ntotal = index[last.eng].ntotal
        /\ Entries(Loaded(last.eng)) = Entries(index[last.eng])
        /\ Loaded(last.eng) = index[last.eng]
C2_Witness ==
    /\ last.op = "save"
    /\ index[last.eng].ntotal = MaxN
    /\ index[last.eng].d > 1

\* C3: while only add_embedding calls have written the file, the persisted
\* identifiers are exactly those whose add_embedding returned.
C3_PersistedEqualsAdded == clean => PersistedIds = added

\* C4: a search, create_albums or create_albums_kmeans that returns has
\* computed on an index holding every identifier whose add_embedding had
\* returned (while only add_embedding calls have written the file).
C4_ReadYourWrites ==
    (clean /\ last.op \in ReadOps /\ last.out = "ok") =>
        added \subseteq Range(index[last.eng].id_map)

\* C5: constructing a SearchEngine over a readable file succeeds, leaves
\* the file as it was and the new index equal to the persisted content.
C5_ConstructLoads ==
    [][(Stepped /\ last'.op = "init" /\ Readable(file)) =>
            /\ file' = file
            /\ last'.out = "ok"
            /\ alive'[last'.eng]
            /\ index'[last'.eng].d = file.d
            /\ index'[last'.eng].ntotal = file.ntotal
            /\ index'[last'.eng].id_map = file.ids
            /\ Flatten(index'[last'.eng].xb) = file.xb]_vars
C5_Witness ==
    /\ last.op = "init"
    /\ last.out = "ok"
    /\ Readable(file)
    /\ index[last.eng].ntotal = MaxN
    /\ dim[last.eng] # index[last.eng].d

\* C6: load() with no file succeeds and leaves an empty index of the
\* configured dimension, whatever the instance held before.
C6_LoadMissing ==
    (last.op = "load" /\ ~file.exists) =>
        /\ last.out = "ok"
        /\ index[last.eng].ntotal = 0
        /\ index[last.eng].d = dim[last.eng]
        /\ index[last.eng] = IndexIDMap(dim[last.eng])
C6_Witness ==
    /\ last.op = "load"
    /\ ~file.exists
    /\ last.nbefore > 0

\* C7: over a file that exists and cannot be deserialized, construction,
\* load, search, create_albums and create_albums_kmeans all fail with the
\* corrupt-store error, and leave the file, every index in memory and the
\* set of instances as they were.
C7_CorruptFails ==
    [][(Stepped /\ last'.op \in {"init", "load"} \cup ReadOps
            /\ file.exists /\ ~Readable(file)) =>
            /\ last'.out = "CorruptStoreError"
            /\ file' = file
            /\ index' = index
            /\ alive' = alive
            /\ dim' = dim]_vars
C7_Witness ==
    /\ last.op = "search"
    /\ last.out = "CorruptStoreError"
    /\ file.exists
    /\ ~file.hdr
    /\ index[last.eng].ntotal > 0

\* C8: over an absent file or an empty persisted store, search,
\* create_albums and create_albums_kmeans return the empty list, for any
\* query vector (of any length) and any k.
C8_EmptyStore ==
    (last.op \in ReadOps /\ (~file.exists \/ (Readable(file) /\ file.ntotal = 0))) =>
        /\ last.out = "ok"
        /\ last.ret = <<>>
C8_Witness ==
    /\ last.op = "search"
    /\ Readable(file)
    /\ file.ntotal = 0
    /\ Len(last.arg[1]) # file.d
    /\ last.arg[2] = 0

\* C9: search returns no pair farther from the query than the cutoff the
\* caller configured.
C9_CallerCutoff ==
    (last.op = "search" /\ last.out = "ok") =>
        \A i \in 1..Len(last.ret) : 2 * last.ret[i][2] <= last.arg[3]

\* C10: neither a search result nor an album of create_albums holds the
\* label -1 of an empty result slot, also when k exceeds the entries held.
C10_NoSentinel ==
    /\ last.op = "search" => \A i \in 1..Len(last.ret) : last.ret[i][1] # NoLabel
    /\ last.op = "create_albums" =>
          \A a \in 1..Len(last.ret) : \A i \in 1..Len(last.ret[a]) :
              last.ret[a][i] # NoLabel
C10_Witness ==
    /\ last.op = "search"
    /\ last.out = "ok"
    /\ file.ntotal > 0
    /\ last.arg[2] > file.ntotal
    /\ Len(last.ret) = file.ntotal

\* the distances from x to every vector of ix, in non-decreasing order
SortedDistances(ix, x) ==
    LET ds == [i \in 1..ix.ntotal |-> L2sqr(x, ix.xb[i])]
        p == CHOOSE q \in Shuffles(ix.ntotal) :
                 \A i, j \in 1..ix.ntotal : i < j => ds[q[i]] <= ds[q[j]]
    IN [i \in 1..ix.ntotal |-> ds[p[i]]]

\* C11: for k >= 1 and a query of the store's dimension, search returns at
\* most k (identifier, distance) pairs in non-decreasing order of distance:
\* the distances are the k smallest squared L2 distances from the query (in
\* single precision) to the stored vectors, less those beyond the cutoff
\* search() applies, and each pair is a stored entry at that distance, no
\* entry reported twice.
C11_SearchReference ==
    (/\ last.op = "search"
     /\ last.arg[2] >= 1
     /\ ~LoadFails
     /\ (index[last.eng].ntotal = 0 \/ Len(last.arg[1]) = index[last.eng].d)) =>
        LET ix == index[last.eng]
            x == AsF32(last.arg[1])
            k == last.arg[2]
            ret == last.ret
            want == SelectSeq(SubSeq(SortedDistances(ix, x), 1, Min(k, ix.ntotal)),
                              LAMBDA dd : 2 * dd <= SearchCutoff2)
        IN /\ last.out = "ok"
           /\ Len(ret) <= k
           /\ \A i, j \in 1..Len(ret) : i < j => ret[i][2] <= ret[j][2]
           /\ [i \in 1..Len(ret) |-> ret[i][2]] = want
           /\ \E s \in [1..Len(ret) -> 1..ix.ntotal] :
                 /\ \A i, j \in 1..Len(ret) : i # j => s[i] # s[j]
                 /\ \A i \in 1..Len(ret) :
                       ret[i] = <<ix.id_map[s[i]], L2sqr(x, ix.xb[s[i]])>>
C11_Witness ==
    /\ last.op = "search"
    /\ last.out = "ok"
    /\ last.arg[2] = 2
    /\ file.ntotal = 3
    /\ Len(last.ret) = 2
    /\ last.ret[1][2] < last.ret[2][2]

\* C12: once add_embedding(id, v) has returned and nothing else has written
\* the file, search(v, 1) by any instance returns exactly [(id, 0.0)],
\* provided no other stored entry has the vector v.
C12_SelfMatch ==
    (/\ last.op = "search"
     /\ lastAdd # None
     /\ last.arg[1] = lastAdd.v
     /\ last.arg[2] = 1
     /\ Cardinality({i \in 1..index[last.eng].ntotal :
                        index[last.eng].xb[i] = AsF32(lastAdd.v)}) <= 1) =>
        /\ last.out = "ok"
        /\ last.ret = << <<lastAdd.id, 0>> >>
C12_Witness ==
    /\ last.op = "search"
    /\ lastAdd # None
    /\ last.arg[1] = lastAdd.v
    /\ last.eng # lastAdd.eng
    /\ last.ret = << <<lastAdd.id, 0>> >>
    /\ index[last.eng].ntotal = MaxN
    /\ \E i \in 1..index[last.eng].ntotal :
          /\ index[last.eng].xb[i] # AsF32(lastAdd.v)
          /\ index[last.eng].id_map[i] # lastAdd.id

\* C13: add_embedding and search given a vector whose length is not the
\* configured dim fail with the dimension error and leave the index in
\* memory and the file as they were; and every vector an instance holds has
\* exactly its configured dim components.
C13_DimensionChecked ==
    [][Stepped =>
        /\ \A e \in Engines : alive'[e] =>
              \A i \in 1..index'[e].ntotal : Len(index'[e].xb[i]) = dim'[e]
        /\ (last'.op \in {"add_embedding", "search"}
                /\ Len(last'.arg[1]) # dim[last'.eng]) =>
              /\ last'.out = "AssertionError"
              /\ index' = index
              /\ file' = file]_vars

\* C14: when at least top_k vectors are stored, the albums
\* create_albums_kmeans returns are pairwise disjoint as identifier sets and
\* their union is the set of stored identifiers, also for stores in which an
\* identifier was added more than once.
C14_KmeansPartition ==
    (/\ last.op = "create_albums_kmeans"
     /\ last.out = "ok"
     /\ file.ntotal >= last.arg[1]) =>
        /\ \A a, b \in 1..Len(last.ret) :
              a # b => Range(last.ret[a]) \cap Range(last.ret[b]) = {}
        /\ UNION {Range(last.ret[a]) : a \in 1..Len(last.ret)} = Range(file.ids)

C17_AlbumCap ==
    (last.op = "create_albums" /\ last.out = "ok") => Len(last.ret) <= last.arg[1]
C17_Witness ==
    /\ last.op = "create_albums"
    /\ last.out = "ok"
    /\ last.arg[1] = 1
    /\ Len(last.ret) = 1
    /\ Cardinality(Range(file.ids)) = 2
    /\ \A id \in Range(file.ids) :
          db[id].row /\ L2sqr(db[id].embedding, <<1>>) = 0
    /\ Range(last.ret[1]) # Range(file.ids)

\* C18: every member of an album create_albums returns is the identifier
\* of a stored entry whose squared L2 distance to the vector of the seed
\* that opened the album (the embedding of the seed's Photo row, in single
\* precision) is at most distance_threshold.
C18_WithinThreshold ==
    (last.op = "create_albums" /\ last.out = "ok") =>
        /\ Len(last.aux) = Len(last.ret)
        /\ \A a \in 1..Len(last.ret) : \A m \in 1..Len(last.ret[a]) :
              /\ db[last.aux[a]].row
              /\ \E i \in 1..index[last.eng].ntotal :
                    /\ index[last.eng].id_map[i] = last.ret[a][m]
                    /\ 2 * L2sqr(db[last.aux[a]].embedding, index[last.eng].xb[i])
                          <= last.arg[2]
C18_Witness ==
    /\ last.op = "create_albums"
    /\ last.out = "ok"
    /\ last.arg[2] = 1
    /\ last.arg[3] = 3
    /\ file.ntotal = 3
    /\ Len(last.ret) = 1
    /\ Len(last.ret[1]) = 2
    /\ \E i \in 1..index[last.eng].ntotal :
          2 * L2sqr(db[last.aux[1]].embedding, index[last.eng].xb[i]) > last.arg[2]

\* C19: create_albums returns exactly top_k albums.
C19_ExactlyTopK ==
    (last.op = "create_albums" /\ last.out = "ok") => Len(last.ret) = last.arg[1]

\* C20: get_stats returns the number of vectors the instance holds, its
\* configured dim and the index variant name, and changes neither an index
\* in memory nor the file; called on an instance just constructed over an
\* absent file it reports 0 vectors and the configured dim.
C20_StatsReadOnly ==
    [][(Stepped /\ last'.op = "get_stats") =>
            /\ last'.out = "ok"
            /\ last'.ret.total_embeddings = index[last'.eng].ntotal
            /\ last'.ret.dimension = dim[last'.eng]
            /\ last'.ret.index_type = "IndexIDMap"
            /\ index' = index
            /\ file' = file
            /\ alive' = alive
            /\ dim' = dim
            /\ (last.op = "init" /\ last.out = "ok" /\ last.eng = last'.eng
                    /\ ~file.exists) =>
                  /\ last'.ret.total_embeddings = 0
                  /\ last'.ret.dimension = dim[last'.eng]]_vars
C20_Witness ==
    /\ last.op = "get_stats"
    /\ last.ret.total_embeddings = MaxN
    /\ last.ret.dimension # index[last.eng].d
    /\ ~file.exists

\* C21: an add_embedding that returns leaves as the persisted store exactly
\* what its own instance held in memory before the call plus the new entry,
\* whatever another instance bound to the same path saved since this one
\* loaded: the last save to complete decides the file, and an identifier
\* another instance added meanwhile can be absent from it.
C21_LastWriterWins ==
    [][(Stepped /\ last'.op = "add_embedding" /\ last'.out = "ok") =>
            /\ Readable(file')
            /\ read_index(file') =
                  add_with_ids(index[last'.eng], AsF32(last'.arg[1]), last'.arg[2])
            /\ PersistedIds' = Range(index[last'.eng].id_map) \cup {last'.arg[2]}]_vars
C21_Witness ==
    /\ last.op = "add_embedding"
    /\ last.out = "ok"
    /\ clean
    /\ last.nbefore = 0
    /\ \E e \in Engines :
          /\ e # last.eng
          /\ alive[e]
          /\ \E id \in Range(index[e].id_map) : id \in added /\ id \notin PersistedIds

\* the number of pairs of a search result that carry identifier id
Occurrences(ret, id) == Cardinality({i \in 1..Len(ret) : ret[i][1] = id})

\* C23: add_embedding of an identifier the instance already holds, with a
\* vector of the index's dimension, succeeds, adds one to the count and
\* keeps every earlier entry in place; and a search that asks for as many
\* pairs as the store holds returns an identifier once for each of its
\* entries within the cutoff, so twice when it was added twice.
C23_DuplicateIds ==
    [][Stepped =>
        /\ (/\ last'.op = "add_embedding"
             /\ last'.arg[2] \in Range(index[last'.eng].id_map)
             /\ Len(last'.arg[1]) = index[last'.eng].d) =>
              /\ last'.out = "ok"
              /\ index'[last'.eng].ntotal = index[last'.eng].ntotal + 1
              /\ SubSeq(Entries(index'[last'.eng]), 1, index[last'.eng].ntotal)
                    = Entries(index[last'.eng])
              /\ Entries(index'[last'.eng])[index'[last'.eng].ntotal]
                    = <<last'.arg[2], AsF32(last'.arg[1])>>
              /\ file'.ntotal = index'[last'.eng].ntotal
        /\ (/\ last'.op = "search"
             /\ last'.out = "ok"
             /\ last'.arg[2] >= index'[last'.eng].ntotal) =>
              \A id \in Ids :
                  Occurrences(last'.ret, id) =
                      Cardinality({i \in 1..index'[last'.eng].ntotal :
                          /\ index'[last'.eng].id_map[i] = id
                          /\ 2 * L2sqr(AsF32(last'.arg[1]), index'[last'.eng].xb[i])
                                <= SearchCutoff2})]_vars
C23_Witness ==
    /\ last.op = "search"
    /\ last.out = "ok"
    /\ Len(last.ret) = 2
    /\ last.ret[1][1] = last.ret[2][1]
    /\ last.ret[1][2] # last.ret[2][2]
    /\ lastAdd # None
    /\ lastAdd.id = last.ret[1][1]

\* C28: construction, load, search, create_albums, create_albums_kmeans
\* and get_stats leave the persisted file exactly as it was (absent when it
\* was absent), whether they return or raise; of the engine's methods only
\* add_embedding and save write it.
C28_ReadersDoNotWrite ==
    [][Stepped =>
        /\ last'.op \in {"init", "load", "get_stats"} \cup ReadOps => file' = file
        /\ (file' # file /\ last'.op \notin {"remove", "truncate"}) =>
              /\ last'.op \in {"add_embedding", "save"}
              /\ last'.out = "ok"
              /\ file' = write_index(index'[last'.eng])]_vars
C28_Witness ==
    /\ last.op = "search"
    /\ last.out = "AssertionError"
    /\ last.nbefore # index[last.eng].ntotal
    /\ file.exists
    /\ clean

\* the index holds every identifier once, and every identifier it holds has
\* a Photo row whose embedding is the vector stored for it
Consistent(ix) ==
    /\ \A i, j \in 1..ix.ntotal : i # j => ix.id_map[i] # ix.id_map[j]
    /\ \A i \in 1..ix.ntotal :
          db[ix.id_map[i]].row /\ db[ix.id_map[i]].embedding = ix.xb[i]

\* C24: for album_size >= 1, every album create_albums returns contains
\* the seed that opened it (stated here of stores that hold every
\* identifier once, with the Photo rows holding the stored vectors).
C24_SeedInAlbum ==
    (/\ last.op = "create_albums"
     /\ last.out = "ok"
     /\ last.arg[3] >= 1
     /\ Consistent(index[last.eng])) =>
        \A a \in 1..Len(last.ret) : last.aux[a] \in Range(last.ret[a])

\* C25: the albums one create_albums call returns are pairwise disjoint,
\* no identifier occurs twice inside an album, and no seed was already a
\* member of an earlier album, also when the index holds an identifier more
\* than once.
C25_AlbumsDisjoint ==
    (last.op = "create_albums" /\ last.out = "ok") =>
        /\ \A a, b \in 1..Len(last.ret) :
              a # b => Range(last.ret[a]) \cap Range(last.ret[b]) = {}
        /\ \A a \in 1..Len(last.ret) : \A i, j \in 1..Len(last.ret[a]) :
              i # j => last.ret[a][i] # last.ret[a][j]
        /\ \A a, b \in 1..Len(last.ret) :
              a < b => last.aux[b] \notin Range(last.ret[a])
C25_Witness ==
    /\ last.op = "create_albums"
    /\ last.out = "ok"
    /\ Len(last.ret) = 2
    /\ file.ntotal = 3
    /\ last.arg[3] = 3
    /\ last.arg[2] = 1
    /\ file.ids = <<1, 2, 1>>
    /\ file.xb = <<1, 2, 2>>

\* C26: every album create_albums returns holds at most album_size
\* identifiers.
C26_AlbumSize ==
    (last.op = "create_albums" /\ last.out = "ok") =>
        \A a \in 1..Len(last.ret) : Len(last.ret[a]) <= last.arg[3]
C26_Witness ==
    /\ last.op = "create_albums"
    /\ last.out = "ok"
    /\ last.arg[3] = 2
    /\ last.arg[2] = 3
    /\ file.ntotal = 3
    /\ Cardinality(Range(file.ids)) = 2
    /\ file.xb = <<1, 1, 1>>
    /\ Len(last.ret) = 1
    /\ Len(last.ret[1]) = 2

\* C27: neither create_albums nor create_albums_kmeans returns an empty
\* album.
C27_NoEmptyAlbum ==
    (last.op \in {"create_albums", "create_albums_kmeans"} /\ last.out = "ok") =>
        \A a \in 1..Len(last.ret) : Len(last.ret[a]) >= 1
C27_Witness ==
    /\ last.op = "create_albums"
    /\ last.out = "ok"
    /\ last.arg[1] >= 1
    /\ last.arg[3] >= 1
    /\ last.arg[2] = 0
    /\ file.ntotal > 0
    /\ \A id \in Range(file.ids) : db[id].row /\ Len(db[id].embedding) = file.d
    /\ last.ret = <<>>

\* C30: every seed of an album create_albums returns has a Photo row that
\* holds an embedding; an identifier without one opens no album, yet it can
\* be a member of another seed's album.
C30_SeedsHaveEmbedding ==
    (last.op = "create_albums" /\ last.out = "ok") =>
        \A a \in 1..Len(last.aux) :
            db[last.aux[a]].row /\ db[last.aux[a]].embedding # <<>>
C30_Witness ==
    /\ last.op = "create_albums"
    /\ last.out = "ok"
    /\ Len(last.ret) = 1
    /\ last.arg[1] >= 2
    /\ Len(last.ret[1]) = 2
    /\ \E m \in Range(last.ret[1]) : ~db[m].row

\* C22: save() rewrites the file in place.  From the moment the writer has
\* opened the path, a file is there and it is cut short; a load() or a
\* construction over a file that exists and is cut short (the writer died,
\* or has not finished yet) fails as corrupt and leaves the instance's index
\* as it was: it gets neither the store before the write nor the one after.
C22_NonAtomicSave ==
    [][/\ \A e \in Engines : (pc[e] = "save" /\ pc'[e] = "opened") =>
              file'.exists /\ ~Readable(file')
       /\ (Stepped /\ last'.op \in {"load", "init"} /\ file.exists /\ ~Readable(file)) =>
              /\ last'.out = "CorruptStoreError"
              /\ index' = index
              /\ file' = file]_vars
\* a load() failed as corrupt while another instance, which had a store on
\* disk before, is in the middle of its save
C22_Witness ==
    /\ last.op = "load"
    /\ last.out = "CorruptStoreError"
    /\ added # {}
    /\ \E e \in Engines \ {last.eng} : pc[e] = "vectors" /\ index[e].ntotal = 2

\* C29: the persisted index changes only when a background task runs its
\* add_embedding, and that task has by then found the image, got an
\* analysis, generated the embedding and passed the database step; a task
\* that raised (image never there after 5 waits, both analyzers failed, no
\* embedding, ...) changes neither the file nor anything later; and every
\* identifier in the persisted index has a Photo row whose committed
\* embedding is the one indexed.
C29_IndexAfterPipeline ==
    [][/\ file' # file =>
             \E id \in Ids :
                /\ task[id].pc = "add" /\ task'[id].pc = "done"
                /\ {"file", "analysis", "embedding", "db"} \subseteq task[id].steps
                /\ file' = write_index(add_with_ids(task[id].index,
                                                    task[id].embedding, id))
       /\ \A id \in Ids :
             /\ (task'[id].pc = "failed" /\ task[id].pc # "failed") => file' = file
             /\ task[id].pc = "failed" => task'[id] = task[id]
             /\ (task[id].pc = "wait" /\ task[id].retry_count = MaxRetries
                   /\ task'[id] # task[id]) =>
                      task'[id].pc \in {"failed", "analyze"}
       /\ \A i \in 1..file'.ntotal :
             /\ db'[file'.ids[i]].row
             /\ db'[file'.ids[i]].embedding = <<file'.xb[i]>>]_vars
\* one task has indexed its photo while another gave up waiting for its
\* image after max_retries waits
C29_Witness ==
    \E id \in Ids, other \in Ids :
        /\ task[id].pc = "done"
        /\ id \in Range(file.ids)
        /\ task[other].pc = "failed"
        /\ task[other].retry_count = MaxRetries
        /\ "file" \notin task[other].steps
====
